---- MODULE Spec2Model ----
(***************************************************************************)
(* A model of pratique2/app.py: the CSV loader load_csv (stepwise: rewind, *)
(* first parse attempt, exception dispatch, retry with latin-1, error      *)
(* report) and the Streamlit script main() from the point where the        *)
(* DataFrame is loaded (preview, column selection, summary, chart with     *)
(* the two-engine histogram fallback, download).                           *)
(*                                                                         *)
(* Library behaviour the code relies on is modelled by what the library    *)
(* does: pandas.read_csv (EmptyDataError on no data, UnicodeDecodeError    *)
(* on bytes that are not UTF-8, ParserError on a row longer than the       *)
(* expected width, the caller's handle left open), Series.dropna/head/     *)
(* mean/median, DataFrame.head/to_csv, Vega-Lite's bin(maxbins) and        *)
(* matplotlib's hist(bins).                                                *)
(***************************************************************************)
EXTENDS Integers, Sequences, FiniteSets, TLC

VARIABLES
    \* ---- load_csv ----
    file,          \* the argument: NoFile (None) or a file-like object
    closed,        \* whether the handle is closed
    pos,           \* the stream position, in lines
    show_error,    \* the argument show_error
    displayUp,     \* whether st.error works (Streamlit available)
    pc,            \* position in load_csv
    result,        \* the returned value: NoTable (None) or a Table
    kind,          \* the branch that returned (the failure kind)
    attempts,      \* history: the parse attempts made, in order
    shown,         \* the messages st.error displayed
    rewinds,       \* history: the outcome of each file.seek(0), in order
    posAtEntry,    \* history: the stream position when load_csv was called
    \* ---- main ----
    mpc,           \* position in main
    inp,           \* the inputs of this run: the DataFrame, the widgets, the engines
    displayed,     \* what st.dataframe showed (NoTable when nothing)
    col_series,    \* the coerced selected column
    summary,       \* what the summary line reported
    plotted,       \* the points handed to st.line_chart / st.bar_chart
    renderTrace,   \* history: the states of the histogram render
    primaryBins,   \* the binning the primary engine's chart uses
    fallbackBins,  \* the binning the secondary engine's chart uses
    download,      \* the data of the download button
    messages       \* what main displayed through st.error / st.warning

loadVars == <<file, closed, pos, show_error, displayUp, pc, result, kind,
              attempts, shown, rewinds, posAtEntry>>
mainVars == <<mpc, inp, displayed, col_series, summary, plotted, renderTrace,
              primaryBins, fallbackBins, download, messages>>
vars == <<loadVars, mainVars>>

\* ------------------------------------------------------------------ bounds

\* The longest stream, in lines.
MaxLines == 3
\* The widest line, in fields.
MaxFields == 2

\* ------------------------------------------------------------ load_csv

\* Python's None, as the missing file and as the missing DataFrame.
NoFile == [none |-> "file"]
NoTable == [none |-> "table"]

\* A line of the stream: its number of fields, and whether it holds a byte
\* sequence that is not valid UTF-8 (every byte is valid latin-1).
Lines == [fields : 1..MaxFields, bad : BOOLEAN]

RECURSIVE SeqsUpTo(_, _)
SeqsUpTo(S, n) ==
    IF n = 0 THEN {<<>>}
    ELSE LET shorter == SeqsUpTo(S, n - 1)
         IN shorter \cup {Append(s, x) : s \in {t \in shorter : Len(t) = n - 1}, x \in S}

\* The file-like objects, open when passed: the content, and how the handle behaves
\* ("ok"; "noseek": seek raises; "ioerror": reading raises OSError).
Files == [content : SeqsUpTo(Lines, MaxLines), mode : {"ok", "noseek", "ioerror"}]

\* Python's and pandas' exception classes, each with its base class.
BaseOf(c) ==
    CASE c = "EmptyDataError" -> "ValueError"
      [] c = "ParserError" -> "ValueError"
      [] c = "UnicodeDecodeError" -> "ValueError"
      [] c = "ValueError" -> "Exception"
      [] c = "AttributeError" -> "Exception"
      [] c = "OSError" -> "Exception"
      [] c = "RuntimeError" -> "Exception"
      [] c = "ImportError" -> "Exception"
      [] c = "Exception" -> "BaseException"
      [] OTHER -> "object"

RECURSIVE IsInstance(_, _)
IsInstance(e, c) ==
    IF e = c THEN TRUE
    ELSE IF e \in {"object", "BaseException"} THEN FALSE
    ELSE IsInstance(BaseOf(e), c)

\* The first except clause of `clauses` that catches e, or "propagate".
RECURSIVE FirstMatch(_, _)
FirstMatch(e, clauses) ==
    IF clauses = <<>> THEN "propagate"
    ELSE IF IsInstance(e, Head(clauses)) THEN Head(clauses)
    ELSE FirstMatch(e, Tail(clauses))

\* Mutant: the outer try retrying on a ParserError as well.
OuterHandlerRetriesParser(e) ==
    IF IsInstance(e, "ParserError") THEN "UnicodeDecodeError"
    ELSE FirstMatch(e, <<"EmptyDataError", "UnicodeDecodeError", "ParserError", "Exception">>)

\* The except clauses of the outer try, in order.
OuterHandler(e) ==
    FirstMatch(e, <<"EmptyDataError", "UnicodeDecodeError", "ParserError", "Exception">>)

\* The except clause of the retry's try.
RetryHandler(e) == FirstMatch(e, <<"Exception">>)

\* The except clause around file.seek(0) and around st.error.
SwallowHandler(e) == FirstMatch(e, <<"Exception">>)

\* file.seek(0): "ok", or the exception it raises.
SeekOutcome(f, isClosed) ==
    IF isClosed THEN "ValueError"
    ELSE IF f.mode = "noseek" THEN "AttributeError"
    ELSE "ok"

\* Mutant: a seek that leaves the position where it was.
PosAfterSeekNoRewind(outcome, p) == p

\* The position after file.seek(0).
PosAfterSeek(outcome, p) == IF outcome = "ok" THEN 0 ELSE p

Max(a, b) == IF a >= b THEN a ELSE b
Min(a, b) == IF a <= b THEN a ELSE b

Raised(e) == [exc |-> e]
IsTable(r) == "ncols" \in DOMAIN r
IsRaise(r) == "exc" \in DOMAIN r

\* pandas' tokenizer on the lines it reads: no line at all is an
\* EmptyDataError; the first line is the header; the expected width is the
\* wider of the header and the first data row (shorter rows are padded); a
\* later row wider than that is a ParserError.
ParseLines(ls) ==
    IF ls = <<>> THEN Raised("EmptyDataError")
    ELSE LET h == ls[1].fields
             data == Tail(ls)
             expected == IF data = <<>> THEN h ELSE Max(h, data[1].fields)
         IN IF \E i \in 2..Len(data) : data[i].fields > expected
            THEN Raised("ParserError")
            ELSE [ncols |-> h, nrows |-> Len(data)]

\* pd.read_csv(file, encoding=enc) from position p: the set of its possible
\* outcomes (a Table or a raised exception). Whether a stream that is both
\* undecodable and ragged raises UnicodeDecodeError or ParserError depends on
\* where pandas decodes, so both are possible.
ReadCsv(f, isClosed, p, enc) ==
    LET ls == SubSeq(f.content, p + 1, Len(f.content))
        parse == ParseLines(ls)
        undecodable == enc = "utf-8" /\ \E i \in 1..Len(ls) : ls[i].bad
    IN IF isClosed THEN {Raised("ValueError")}
       ELSE IF f.mode = "ioerror" THEN {Raised("OSError")}
       ELSE IF undecodable
            THEN {Raised("UnicodeDecodeError")}
                 \cup (IF IsRaise(parse) /\ parse.exc = "ParserError" THEN {parse} ELSE {})
       ELSE {parse}

\* The position after read_csv has run: it reads to the end of the stream
\* unless the handle refuses to be read.
PosAfterRead(f, isClosed, p) ==
    IF isClosed \/ f.mode = "ioerror" THEN p ELSE Len(f.content)

\* Mutant: a read_csv that closes the handle it was given.
ClosedAfterReadCloses(isClosed) == TRUE

\* read_csv leaves a handle it did not open as it found it.
ClosedAfterRead(isClosed) == isClosed

\* st.error(msg): "ok", or the exception it raises when Streamlit is not there.
StError == IF displayUp THEN "ok" ELSE "RuntimeError"

\* Mutant: an empty DataFrame returned for an empty file.
FailureValueEmptyFrame(k) ==
    IF k = "EmptyData" THEN [ncols |-> 0, nrows |-> 0] ELSE NoTable

\* What a failure branch returns: None.
FailureValue(k) == NoTable

\* Mutant: the report without the try around st.error.
ReportUnguarded(msg, k) ==
    /\ shown' = IF show_error /\ StError = "ok" THEN Append(shown, msg) ELSE shown
    /\ pc' = IF show_error /\ StError # "ok" THEN "raised" ELSE "done"
    /\ result' = IF show_error /\ StError # "ok" THEN result ELSE FailureValue(k)
    /\ kind' = IF show_error /\ StError # "ok" THEN kind ELSE k

\* A failure branch: if show_error, try st.error(msg), an exception of which
\* is passed over; return None.
Report(msg, k) ==
    LET escapes == show_error /\ StError # "ok" /\ SwallowHandler(StError) = "propagate"
    IN /\ shown' = IF show_error /\ StError = "ok" THEN Append(shown, msg) ELSE shown
       /\ pc' = IF escapes THEN "raised" ELSE "done"
       /\ result' = IF escapes THEN result ELSE FailureValue(k)
       /\ kind' = IF escapes THEN kind ELSE k

MsgNoFile == "Aucun fichier fourni."
MsgEmpty == "Le fichier CSV est vide."
MsgEncoding == "Erreur d'encodage du fichier CSV. Essayez un encodage different (ex: UTF-8 / latin-1)."
MsgParse == "Erreur lors de l'analyse du CSV (format invalide)."
MsgUnknown == "Impossible de lire le fichier CSV"

LoadInit ==
    /\ file \in Files \cup {NoFile}
    /\ closed = FALSE
    /\ pos \in 0..MaxLines
    /\ IF file = NoFile THEN pos = 0 ELSE pos <= Len(file.content)
    /\ show_error \in BOOLEAN
    /\ displayUp \in BOOLEAN
    /\ pc = "entry"
    /\ result = NoTable
    /\ kind = "none"
    /\ attempts = <<>>
    /\ shown = <<>>
    /\ rewinds = <<>>
    /\ posAtEntry = pos

\* if file is None: report, return None.
LoadNoFile ==
    /\ pc = "entry"
    /\ file = NoFile
    /\ Report(MsgNoFile, "NoFile")
    /\ UNCHANGED <<file, closed, pos, show_error, displayUp, attempts, rewinds,
                   posAtEntry>>
    /\ UNCHANGED mainVars

\* try: file.seek(0) except Exception: pass
LoadRewind ==
    /\ pc = "entry"
    /\ file # NoFile
    /\ LET s == SeekOutcome(file, closed)
       IN /\ pos' = PosAfterSeek(s, pos)
          /\ rewinds' = Append(rewinds, s)
          /\ pc' = IF s # "ok" /\ SwallowHandler(s) = "propagate" THEN "raised" ELSE "parse"
    /\ UNCHANGED <<file, closed, show_error, displayUp, result, kind, attempts, shown,
                   posAtEntry>>
    /\ UNCHANGED mainVars

\* df = pd.read_csv(file); return df, and the except clauses of the outer try.
LoadFirstAttempt ==
    /\ pc = "parse"
    /\ \E o \in ReadCsv(file, closed, pos, "utf-8") :
        /\ attempts' = Append(attempts, [enc |-> "utf-8", at |-> pos, outcome |-> o])
        /\ pos' = PosAfterRead(file, closed, pos)
        /\ closed' = ClosedAfterRead(closed)
        /\ IF IsTable(o)
           THEN /\ result' = o
                /\ kind' = "Success"
                /\ pc' = "done"
                /\ UNCHANGED shown
           ELSE LET h == OuterHandler(o.exc)
                IN CASE h = "EmptyDataError" -> Report(MsgEmpty, "EmptyData")
                     [] h = "UnicodeDecodeError" ->
                            /\ pc' = "retry"
                            /\ UNCHANGED <<result, kind, shown>>
                     [] h = "ParserError" -> Report(MsgParse, "ParseError")
                     [] h = "Exception" -> Report(MsgUnknown, "Unknown")
                     [] OTHER -> /\ pc' = "raised"
                                 /\ UNCHANGED <<result, kind, shown>>
    /\ UNCHANGED <<file, show_error, displayUp, rewinds, posAtEntry>>
    /\ UNCHANGED mainVars

\* In the UnicodeDecodeError clause: try: file.seek(0) ...; a seek that raises
\* is caught by the retry's except Exception.
LoadRetryRewind ==
    /\ pc = "retry"
    /\ rewinds' = Append(rewinds, SeekOutcome(file, closed))
    /\ LET s == SeekOutcome(file, closed)
       IN IF s = "ok"
          THEN /\ pos' = PosAfterSeek(s, pos)
               /\ pc' = "retry_parse"
               /\ UNCHANGED <<result, kind, shown>>
          ELSE /\ pos' = pos
               /\ IF RetryHandler(s) = "Exception"
                  THEN Report(MsgEncoding, "EncodingError")
                  ELSE /\ pc' = "raised"
                       /\ UNCHANGED <<result, kind, shown>>
    /\ UNCHANGED <<file, closed, show_error, displayUp, attempts, posAtEntry>>
    /\ UNCHANGED mainVars

\* df = pd.read_csv(file, encoding="latin-1"); return df / except Exception.
LoadRetryAttempt ==
    /\ pc = "retry_parse"
    /\ \E o \in ReadCsv(file, closed, pos, "latin-1") :
        /\ attempts' = Append(attempts, [enc |-> "latin-1", at |-> pos, outcome |-> o])
        /\ pos' = PosAfterRead(file, closed, pos)
        /\ closed' = ClosedAfterRead(closed)
        /\ IF IsTable(o)
           THEN /\ result' = o
                /\ kind' = "Success"
                /\ pc' = "done"
                /\ UNCHANGED shown
           ELSE IF RetryHandler(o.exc) = "Exception"
                THEN Report(MsgEncoding, "EncodingError")
                ELSE /\ pc' = "raised"
                     /\ UNCHANGED <<result, kind, shown>>
    /\ UNCHANGED <<file, show_error, displayUp, rewinds, posAtEntry>>
    /\ UNCHANGED mainVars

MainIdle ==
    /\ mpc = "idle"
    /\ inp = [none |-> "inputs"]
    /\ displayed = [none |-> "displayed"]
    /\ col_series = <<>>
    /\ summary = [none |-> "summary"]
    /\ plotted = [none |-> "plotted"]
    /\ renderTrace = <<>>
    /\ primaryBins = [none |-> "bins"]
    /\ fallbackBins = [none |-> "bins"]
    /\ download = [none |-> "download"]
    /\ messages = <<>>

Init == LoadInit /\ MainIdle

Next ==
    \/ LoadNoFile
    \/ LoadRewind
    \/ LoadFirstAttempt
    \/ LoadRetryRewind
    \/ LoadRetryAttempt

Spec == Init /\ [][Next]_vars

\* ----------------------------------------------------------------- main

\* The longest series whose every content is tried (summary, line chart).
MaxSeriesLen == 4
\* How far past the bar chart's limit the long series go.
MaxExtra == 3
\* The largest value of a histogram series.
MaxHistValue == 8
\* How many bin counts above the slider's minimum are tried.
MaxBinsExtra == 6
\* The most rows of a table of the preview and download runs.
MaxTableRows == 7
\* How many steps above its minimum the row-count input is tried.
MaxRowsSteps == 1

\* st.sidebar.number_input("Nombre de lignes a afficher", min_value=5, ..., step=5)
MinRowsDisplayed == 5
RowsStep == 5
\* st.sidebar.slider("Nombre de bins", min_value=5, max_value=200, value=30)
HistBinsMin == 5
HistBinsMax == 200
\* col_series.dropna().head(100)
BarHead == 100

\* A cell of a DataFrame: a number, the missing value NaN, or a text.
Num(n) == [num |-> n]
NaN == [nan |-> TRUE]
Text(t) == [txt |-> t]
IsNum(c) == "num" \in DOMAIN c

\* pd.to_numeric(column, errors='coerce'): what is not a number becomes NaN,
\* position by position.
ToNumeric(cells) == [i \in 1..Len(cells) |-> IF IsNum(cells[i]) THEN cells[i] ELSE NaN]

\* The dtype pandas gives a column: int64 when every cell is a number, float64
\* when numbers and missing values mix (or all are missing), object otherwise
\* and for a column of no rows.
DType(cells) ==
    IF cells = <<>> THEN "object"
    ELSE IF \A i \in 1..Len(cells) : IsNum(cells[i]) THEN "int64"
    ELSE IF \A i \in 1..Len(cells) : IsNum(cells[i]) \/ cells[i] = NaN THEN "float64"
    ELSE "object"

Column(name, cells) == [name |-> name, dtype |-> DType(cells), values |-> cells]

\* list_numeric_columns(df): df.select_dtypes(include="number"), as the
\* positions of the numeric columns.
list_numeric_columns(df) == {i \in 1..Len(df) : df[i].dtype \in {"int64", "float64"}}

NRows(df) == IF df = <<>> THEN 0 ELSE Len(df[1].values)

\* Mutant: head(n) keeping one row too many.
HeadOffByOne(sq, n) == SubSeq(sq, 1, Min(n + 1, Len(sq)))

\* Series.head(n) / DataFrame.head(n) on a sequence: its first n entries.
head(sq, n) == SubSeq(sq, 1, Min(n, Len(sq)))

\* df.head(n): the first n rows of every column.
HeadFrame(df, n) ==
    [c \in 1..Len(df) |-> [df[c] EXCEPT !.values = head(df[c].values, n)]]

\* Series.dropna(): the present values in order, each with its index label
\* (the filter is run by halves of the range lo..hi).
RECURSIVE DropNaRange(_, _, _)
DropNaRange(cells, lo, hi) ==
    IF lo > hi THEN <<>>
    ELSE IF lo = hi
         THEN (IF IsNum(cells[lo]) THEN <<[i |-> lo - 1, v |-> cells[lo]]>> ELSE <<>>)
         ELSE LET mid == (lo + hi) \div 2
              IN DropNaRange(cells, lo, mid) \o DropNaRange(cells, mid + 1, hi)

DropNa(cells) == DropNaRange(cells, 1, Len(cells))

RECURSIVE SumPoints(_)
SumPoints(pts) == IF pts = <<>> THEN 0 ELSE pts[1].v.num + SumPoints(Tail(pts))

\* Mutant: the mean with missing values counted as zeros.
MeanCountsMissing(cells) ==
    IF Len(cells) = 0 THEN NaN
    ELSE [num |-> SumPoints(DropNa(cells)), den |-> Len(cells)]

\* Series.mean() (skipna): the sum of the present values over their number,
\* as a fraction; NaN when no value is present.
Mean(cells) ==
    LET pts == DropNa(cells)
    IN IF pts = <<>> THEN NaN
       ELSE [num |-> SumPoints(pts), den |-> Len(pts)]

\* The k-th smallest of the present values.
KthSmallest(pts, k) ==
    CHOOSE x \in {pts[j].v.num : j \in 1..Len(pts)} :
        /\ Cardinality({j \in 1..Len(pts) : pts[j].v.num < x}) < k
        /\ Cardinality({j \in 1..Len(pts) : pts[j].v.num <= x}) >= k

\* Series.median() (skipna): the middle present value, or the mean of the two
\* middle ones, as a fraction; NaN when no value is present.
Median(cells) ==
    LET pts == DropNa(cells)
        n == Len(pts)
    IN IF n = 0 THEN NaN
       ELSE IF n % 2 = 1 THEN [num |-> KthSmallest(pts, (n + 1) \div 2), den |-> 1]
       ELSE [num |-> KthSmallest(pts, n \div 2) + KthSmallest(pts, n \div 2 + 1), den |-> 2]

\* Bin edges are kept in thousandths.
Scale == 10 * 10 * 10

RECURSIVE Pow10(_)
Pow10(k) == IF k <= 0 THEN 1 ELSE 10 * Pow10(k - 1)

MinOf(pts) == CHOOSE x \in {pts[j].v.num : j \in 1..Len(pts)} :
                  \A j \in 1..Len(pts) : x <= pts[j].v.num
MaxOf(pts) == CHOOSE x \in {pts[j].v.num : j \in 1..Len(pts)} :
                  \A j \in 1..Len(pts) : x >= pts[j].v.num

\* ceil(log10(n)) for n >= 1.
RECURSIVE CeilLog10(_)
CeilLog10(n) == IF n <= 1 THEN 0 ELSE 1 + CeilLog10((n + 9) \div 10)

\* round(log10(n)) for an integer n >= 1: the k with 10^(2k-1) <= n^2 < 10^(2k+1).
RECURSIVE RoundLog10From(_, _)
RoundLog10From(n, k) == IF n * n < Pow10(2 * k + 1) THEN k ELSE RoundLog10From(n, k + 1)
RoundLog10(n) == RoundLog10From(n, 0)

\* Vega's "increase step size if too many bins".
RECURSIVE GrowStep(_, _, _)
GrowStep(span, step, maxb) ==
    IF (span + step - 1) \div step > maxb THEN GrowStep(span, step * 10, maxb) ELSE step

\* alt.Bin(maxbins=n), as Vega computes it over the extent of the data: the
\* step is the smallest of 1, 2, 5 times a power of ten that gives at most n
\* bins, and the edges are multiples of the step around the extent.
VegaBin(pts, maxb) ==
    IF pts = <<>> THEN [count |-> 0, lo |-> 0, hi |-> 0]
    ELSE LET lo == MinOf(pts) * Scale
             hi == MaxOf(pts) * Scale
             span == IF hi > lo THEN hi - lo ELSE IF lo # 0 THEN lo ELSE Scale
             s0 == Pow10(RoundLog10(span \div Scale) - CeilLog10(maxb) + 3)
             s1 == GrowStep(span, s0, maxb)
             s2 == IF span * 5 <= maxb * s1 THEN s1 \div 5 ELSE s1
             s3 == IF span * 2 <= maxb * s2 THEN s2 \div 2 ELSE s2
             start == (lo \div s3) * s3
             stop0 == ((hi + s3 - 1) \div s3) * s3
             stop == IF stop0 = start THEN start + s3 ELSE stop0
         IN [count |-> (stop - start) \div s3, lo |-> start, hi |-> stop]

\* ax.hist(values, bins=n), as numpy computes the edges: n equal-width bins
\* over [min, max]; over [min - 0.5, max + 0.5] when all values are equal; over
\* [0, 1] when there is no value.
MatplotlibBin(pts, n) ==
    IF pts = <<>> THEN [count |-> n, lo |-> 0, hi |-> Scale]
    ELSE IF MinOf(pts) = MaxOf(pts)
         THEN [count |-> n, lo |-> MinOf(pts) * Scale - Scale \div 2,
               hi |-> MaxOf(pts) * Scale + Scale \div 2]
         ELSE [count |-> n, lo |-> MinOf(pts) * Scale, hi |-> MaxOf(pts) * Scale]

\* to_csv's text of a cell: a float column writes 1.0, a missing value
\* writes nothing.
CellText(c, dtype) ==
    IF IsNum(c) THEN (IF dtype = "float64" THEN ToString(c.num) \o ".0" ELSE ToString(c.num))
    ELSE IF c = NaN THEN ""
    ELSE c.txt

\* df.to_csv(index=False): the header line, then one line per row.
ToCsv(df) ==
    <<[c \in 1..Len(df) |-> df[c].name]>>
    \o [r \in 1..NRows(df) |-> [c \in 1..Len(df) |-> CellText(df[c].values[r], df[c].dtype)]]

\* Python's None for a value main has not produced.
NoneOf(what) == [none |-> what]

\* ---- the inputs of a run of main: the loaded DataFrame and the widgets ----

RowsDefault == 50
HistBinsDefault == 30

Widgets(df, head_on, rows, agg, chart, bins, primary, secondary) ==
    [df |-> df, show_head |-> head_on, max_rows |-> rows, agg_option |-> agg,
     chart_type |-> chart, hist_bins |-> bins, primary |-> primary,
     secondary |-> secondary]

SummaryCells == {NaN} \cup {Num(v) : v \in {1, 2, 3, 5}}
ExampleSeries == <<Num(1), Num(2), Num(3), NaN, Num(5)>>

\* Runs over every short series: summary on or off, line chart.
SummaryInputs ==
    {Widgets(<<Column("x", s)>>, TRUE, RowsDefault, a, "Line", HistBinsDefault, "ok", "ok") :
        s \in SeqsUpTo(SummaryCells, MaxSeriesLen) \cup {ExampleSeries}, a \in BOOLEAN}

\* A series of n entries, entry i being the number i, missing at the places
\* of `gaps`.
LongSeries(n, gaps) == [i \in 1..n |-> IF i \in gaps THEN NaN ELSE Num(i)]

\* Runs over series around the bar chart's limit.
BarInputs ==
    {Widgets(<<Column("x", LongSeries(n, g))>>, FALSE, RowsDefault, FALSE, "Bar",
             HistBinsDefault, "ok", "ok") :
        n \in (BarHead - 2)..(BarHead + MaxExtra), g \in SUBSET {1, 3, BarHead}}

EngineFaults == {"ok", "import", "build", "display"}

\* Runs of the histogram: short series, bin counts from the slider's range,
\* each engine working or failing at one of its stages.
HistInputs ==
    {Widgets(<<Column("x", s)>>, TRUE, RowsDefault, FALSE, "Histogramme", b, p1, p2) :
        s \in SeqsUpTo({NaN} \cup {Num(v) : v \in 0..MaxHistValue}, 2),
        b \in HistBinsMin..Min(HistBinsMax, HistBinsMin + MaxBinsExtra),
        p1 \in EngineFaults, p2 \in EngineFaults}

\* Runs of the preview and the download: tables of a numeric and a text
\* column, or of a text column alone, and the row-count input.
DownloadInputs ==
    {Widgets(IF numeric
             THEN <<Column("x", [i \in 1..n |-> Num(i)]),
                    Column("category", [i \in 1..n |-> Text(IF i % 2 = 0 THEN "A" ELSE "B")])>>
             ELSE <<Column("category", [i \in 1..n |-> Text("A")])>>,
             h, MinRowsDisplayed + RowsStep * k, FALSE, c, HistBinsDefault, "ok", "ok") :
        numeric \in BOOLEAN, n \in 0..MaxTableRows, h \in BOOLEAN, k \in 0..MaxRowsSteps,
        c \in {"Line", "Bar"}}

MainInputs == SummaryInputs \cup BarInputs \cup HistInputs \cup DownloadInputs

MsgNoNumeric == "Aucune colonne numerique trouvee"
MsgHistFailed == "Impossible de tracer l'histogramme"

MainInit ==
    /\ mpc = "loaded"
    /\ inp \in MainInputs
    /\ displayed = NoneOf("displayed")
    /\ col_series = <<>>
    /\ summary = NoneOf("summary")
    /\ plotted = NoneOf("plotted")
    /\ renderTrace = <<>>
    /\ primaryBins = NoneOf("bins")
    /\ fallbackBins = NoneOf("bins")
    /\ download = NoneOf("download")
    /\ messages = <<>>

\* The preview: if show_head: st.dataframe(df.head(int(max_rows))).
MainPreview ==
    /\ mpc = "loaded"
    /\ displayed' = IF inp.show_head
                    THEN [frame |-> HeadFrame(inp.df, inp.max_rows)]
                    ELSE displayed
    /\ mpc' = "preview"
    /\ UNCHANGED <<inp, col_series, summary, plotted, renderTrace, primaryBins,
                   fallbackBins, download, messages>>
    /\ UNCHANGED loadVars

\* numeric_cols = list_numeric_columns(df); if not numeric_cols: warn, return.
MainNoNumeric ==
    /\ mpc = "preview"
    /\ list_numeric_columns(inp.df) = {}
    /\ messages' = Append(messages, MsgNoNumeric)
    /\ mpc' = "end"
    /\ UNCHANGED <<inp, displayed, col_series, summary, plotted, renderTrace,
                   primaryBins, fallbackBins, download>>
    /\ UNCHANGED loadVars

\* selected_col = selectbox(numeric_cols); col_series = pd.to_numeric(df[selected_col]).
MainSelect ==
    /\ mpc = "preview"
    /\ \E c \in list_numeric_columns(inp.df) :
           col_series' = ToNumeric(inp.df[c].values)
    /\ mpc' = "selected"
    /\ UNCHANGED <<inp, displayed, summary, plotted, renderTrace, primaryBins,
                   fallbackBins, download, messages>>
    /\ UNCHANGED loadVars

\* if agg_option: mean_v = col_series.mean(); median_v = col_series.median().
MainSummary ==
    /\ mpc = "selected"
    /\ summary' = IF inp.agg_option
                  THEN [mean_v |-> Mean(col_series), median_v |-> Median(col_series)]
                  ELSE summary
    /\ mpc' = "chart"
    /\ UNCHANGED <<inp, displayed, col_series, plotted, renderTrace, primaryBins,
                   fallbackBins, download, messages>>
    /\ UNCHANGED loadVars

\* st.line_chart(col_series.dropna())
MainLineChart ==
    /\ mpc = "chart"
    /\ inp.chart_type = "Line"
    /\ plotted' = [points |-> DropNa(col_series)]
    /\ mpc' = "charted"
    /\ UNCHANGED <<inp, displayed, col_series, summary, renderTrace, primaryBins,
                   fallbackBins, download, messages>>
    /\ UNCHANGED loadVars

\* st.bar_chart(col_series.dropna().head(100))
MainBarChart ==
    /\ mpc = "chart"
    /\ inp.chart_type = "Bar"
    /\ plotted' = [points |-> head(DropNa(col_series), BarHead)]
    /\ mpc' = "charted"
    /\ UNCHANGED <<inp, displayed, col_series, summary, renderTrace, primaryBins,
                   fallbackBins, download, messages>>
    /\ UNCHANGED loadVars

\* The exception an engine raises when it fails at a stage.
EngineException(fault) ==
    CASE fault = "import" -> "ImportError"
      [] fault = "build" -> "ValueError"
      [] fault = "display" -> "RuntimeError"

\* The except clause of the primary engine's try.
PrimaryHandler(e) == FirstMatch(e, <<"Exception">>)

\* The except clause of the secondary engine's try.
SecondaryHandler(e) == FirstMatch(e, <<"Exception">>)

\* Mutant: the secondary engine run whether or not the primary one failed.
AfterPrimaryAlwaysFallback(fault) == "hist_fallback"

\* Where main goes after the primary engine's try: on, or to the except clause.
AfterPrimary(fault) ==
    IF fault = "ok" THEN "charted"
    ELSE IF PrimaryHandler(EngineException(fault)) = "Exception" THEN "hist_fallback"
    ELSE "raised"

\* The histogram through altair: import, build the chart with
\* alt.Bin(maxbins=hist_bins), st.altair_chart.
HistPrimaryAttempt ==
    /\ mpc = "chart"
    /\ inp.chart_type = "Histogramme"
    /\ primaryBins' = IF inp.primary \in {"ok", "display"}
                      THEN VegaBin(DropNa(col_series), inp.hist_bins)
                      ELSE primaryBins
    /\ mpc' = AfterPrimary(inp.primary)
    /\ renderTrace' = <<"Selecting", "PrimaryAttempt">>
                      \o (IF AfterPrimary(inp.primary) = "charted" THEN <<"Rendered">> ELSE <<>>)
    /\ UNCHANGED <<inp, displayed, col_series, summary, plotted, fallbackBins,
                   download, messages>>
    /\ UNCHANGED loadVars

\* The except clause: the histogram through matplotlib: import, ax.hist(...,
\* bins=hist_bins), st.pyplot; its own except clause reports through st.error.
HistFallbackAttempt ==
    /\ mpc = "hist_fallback"
    /\ fallbackBins' = IF inp.secondary \in {"ok", "display"}
                       THEN MatplotlibBin(DropNa(col_series), inp.hist_bins)
                       ELSE fallbackBins
    /\ IF inp.secondary = "ok"
       THEN /\ renderTrace' = renderTrace \o <<"FallbackAttempt", "Rendered">>
            /\ mpc' = "charted"
            /\ UNCHANGED messages
       ELSE IF SecondaryHandler(EngineException(inp.secondary)) = "Exception"
            THEN /\ renderTrace' = renderTrace \o <<"FallbackAttempt", "Failed">>
                 /\ mpc' = "charted"
                 /\ messages' = Append(messages, MsgHistFailed)
            ELSE /\ renderTrace' = Append(renderTrace, "FallbackAttempt")
                 /\ mpc' = "raised"
                 /\ UNCHANGED messages
    /\ UNCHANGED <<inp, displayed, col_series, summary, plotted, primaryBins, download>>
    /\ UNCHANGED loadVars

\* st.download_button("Telecharger le CSV", data=df.to_csv(index=False), ...)
MainDownload ==
    /\ mpc = "charted"
    /\ download' = [data |-> ToCsv(inp.df)]
    /\ mpc' = "end"
    /\ UNCHANGED <<inp, displayed, col_series, summary, plotted, renderTrace,
                   primaryBins, fallbackBins, messages>>
    /\ UNCHANGED loadVars

LoadIdle ==
    /\ file = NoFile
    /\ closed = FALSE
    /\ pos = 0
    /\ show_error = TRUE
    /\ displayUp = TRUE
    /\ pc = "idle"
    /\ result = NoTable
    /\ kind = "none"
    /\ attempts = <<>>
    /\ shown = <<>>
    /\ rewinds = <<>>
    /\ posAtEntry = 0

InitMain == MainInit /\ LoadIdle

NextMain ==
    \/ MainPreview
    \/ MainNoNumeric
    \/ MainSelect
    \/ MainSummary
    \/ MainLineChart
    \/ MainBarChart
    \/ HistPrimaryAttempt
    \/ HistFallbackAttempt
    \/ MainDownload

SpecMain == InitMain /\ [][NextMain]_vars

\* ------------------------------------------------- claims about load_csv

Done == pc = "done"
FailureKinds == {"NoFile", "EmptyData", "EncodingError", "ParseError", "Unknown"}
IsDecodeError(o) == IsRaise(o) /\ o.exc = "UnicodeDecodeError"

\* The failure kind a first attempt's exception stands for.
KindOfFirstFailure(e) ==
    CASE e = "EmptyDataError" -> "EmptyData"
      [] e = "ParserError" -> "ParseError"
      [] OTHER -> "Unknown"

\* The outcome the log of parse attempts stands for; the display is no part of it.
OutcomeOfAttempts ==
    IF file = NoFile THEN "NoFile"
    ELSE IF IsTable(attempts[Len(attempts)].outcome) THEN "Success"
    ELSE IF IsDecodeError(attempts[1].outcome) THEN "EncodingError"
    ELSE KindOfFirstFailure(attempts[1].outcome.exc)

\* C1: no exception escapes load_csv, whatever the handle, the parse or the
\* display raise and whatever show_error is: the call returns a Table or None,
\* the outcome is the one the parse attempts decide, and the display decides
\* only whether a message was shown.
C1_NoEscape ==
    /\ pc # "raised"
    /\ Done => /\ \/ kind = "Success" /\ IsTable(result)
                  \/ kind \in FailureKinds /\ result = NoTable
               /\ kind = OutcomeOfAttempts
               /\ shown # <<>> => show_error /\ displayUp
               /\ Len(shown) <= 1

\* C1 witness: a parse that raised an unlisted exception, reported through a
\* display that raises, has returned None.
C1_Witness ==
    /\ Done
    /\ show_error /\ ~displayUp
    /\ kind = "Unknown" /\ result = NoTable
    /\ attempts[1].outcome = Raised("OSError")

\* C2 as stated: a second parse attempt happens if and only if the first
\* attempt failed with a decode error.
C2_RetryIffDecodeError ==
    Done /\ file # NoFile =>
        (Len(attempts) = 2 <=> IsDecodeError(attempts[1].outcome))

\* C2 amended: a second parse attempt happens if and only if the first attempt
\* failed with a decode error and the rewind before the retry succeeded; it
\* happens at most once; a decode error followed by a successful retry is a
\* Success, a decode error followed by a failed rewind or a failed retry is
\* EncodingError, and any other first failure is its own kind with no retry.
C2_RetryIffDecodeErrorAndRewind ==
    /\ Len(attempts) <= 2
    /\ Len(attempts) = 2 =>
           /\ IsDecodeError(attempts[1].outcome)
           /\ attempts[1].enc = "utf-8" /\ attempts[2].enc = "latin-1"
           /\ Len(rewinds) = 2 /\ rewinds[2] = "ok"
    /\ Done /\ file # NoFile =>
           /\ Len(attempts) >= 1
           /\ (IsDecodeError(attempts[1].outcome) /\ Len(rewinds) = 2 /\ rewinds[2] = "ok")
                  => Len(attempts) = 2
           /\ IF Len(attempts) = 2
              THEN IF IsTable(attempts[2].outcome)
                   THEN kind = "Success" /\ result = attempts[2].outcome
                   ELSE kind = "EncodingError" /\ result = NoTable
              ELSE IF IsTable(attempts[1].outcome)
                   THEN kind = "Success" /\ result = attempts[1].outcome
                   ELSE IF IsDecodeError(attempts[1].outcome)
                        THEN kind = "EncodingError" /\ result = NoTable
                        ELSE /\ kind = KindOfFirstFailure(attempts[1].outcome.exc)
                             /\ result = NoTable
                             /\ Len(rewinds) = 1

\* C2 witness: a decode error, then a retry that failed, returned EncodingError.
C2_Witness ==
    /\ Done
    /\ Len(attempts) = 2
    /\ IsDecodeError(attempts[1].outcome)
    /\ IsRaise(attempts[2].outcome)
    /\ kind = "EncodingError"

\* The table the lines read from position p hold: the header's width, and one
\* row per line after the header.
TableOfLines(p) ==
    [ncols |-> file.content[p + 1].fields, nrows |-> Len(file.content) - p - 1]

\* C5: Success comes only with the fully parsed Table, which has at least one
\* column; a failure returns no Table; a zero-byte input is never a Success,
\* and is EmptyData when the handle can be read; no file is NoFile.
C5_SuccessHasTable ==
    Done =>
        /\ kind = "Success" =>
               /\ IsTable(result)
               /\ result.ncols >= 1 /\ result.nrows >= 0
               /\ result = TableOfLines(attempts[Len(attempts)].at)
        /\ kind # "Success" => result = NoTable
        /\ file = NoFile => kind = "NoFile"
        /\ (file # NoFile /\ file.content = <<>>) =>
               /\ kind # "Success"
               /\ file.mode # "ioerror" => kind = "EmptyData"

\* C5 witness: a zero-byte stream was read and reported as EmptyData.
C5_Witness ==
    /\ Done
    /\ file # NoFile /\ file.content = <<>>
    /\ Len(attempts) = 1
    /\ kind = "EmptyData" /\ result = NoTable

\* C6 as stated: after load returns, the stream is closed.
C6_ClosedOnReturn ==
    Done /\ file # NoFile => closed

\* C6 amended: load_csv does not release the stream: on every exit path,
\* Success or any Failure, retry or not, the handle the caller passed open is
\* still open, and releasing it is left to the caller.
C6_HandleLeftAsFound ==
    /\ ~closed
    /\ Done /\ file # NoFile =>
           \/ kind = "Success" /\ IsTable(result) /\ ~closed
           \/ kind \in FailureKinds /\ result = NoTable /\ ~closed

\* C6 witness: load returned after a retry and the handle is still open.
C6_Witness ==
    /\ Done
    /\ file # NoFile
    /\ Len(attempts) = 2
    /\ ~closed

\* C10 as stated: every parse attempt starts at the start of the stream.
C10_EveryAttemptAtStart ==
    \A i \in 1..Len(attempts) : attempts[i].at = 0

\* C10 amended: a parse attempt that follows a successful rewind starts at the
\* start of the stream, and the retry always does, since it is made only after
\* a successful rewind; when the first rewind fails the first attempt is still
\* made, from the position the stream was at; when the rewind before the retry
\* fails the retry is not made and load returns Failure(EncodingError).
C10_RewoundAttemptsAtStart ==
    /\ pc # "raised"
    /\ \A i \in 1..Len(attempts) :
           /\ Len(rewinds) >= i
           /\ rewinds[i] = "ok" => attempts[i].at = 0
           /\ rewinds[i] # "ok" => i = 1 /\ attempts[i].at = posAtEntry
    /\ Len(attempts) = 2 => rewinds[2] = "ok" /\ attempts[2].at = 0
    /\ (Len(rewinds) = 2 /\ rewinds[2] # "ok") =>
           /\ Len(attempts) = 1
           /\ pc = "done"
           /\ kind = "EncodingError" /\ result = NoTable

\* C10 witness: the rewind before the retry failed, and load returned.
C10_Witness ==
    /\ Done
    /\ Len(rewinds) = 2 /\ rewinds[2] # "ok"
    /\ Len(attempts) = 1
    /\ kind = "EncodingError"

\* ----------------------------------------------------- claims about main

IsSet(x) == "none" \notin DOMAIN x
\* The chart stage of main is over (a run that ends without a chart offers no download).
Charted == mpc = "charted" \/ (mpc = "end" /\ IsSet(download))
PresentAt == {i \in 1..Len(col_series) : IsNum(col_series[i])}
InTrace(st) == \E i \in 1..Len(renderTrace) : renderTrace[i] = st

\* The paths of the render state machine, and their prefixes at a step's end.
RenderPaths ==
    {<<>>,
     <<"Selecting", "PrimaryAttempt">>,
     <<"Selecting", "PrimaryAttempt", "Rendered">>,
     <<"Selecting", "PrimaryAttempt", "FallbackAttempt", "Rendered">>,
     <<"Selecting", "PrimaryAttempt", "FallbackAttempt", "Failed">>}

\* C3: the histogram render goes Selecting, PrimaryAttempt, then Rendered, or
\* FallbackAttempt and then Rendered or Failed: the secondary engine is tried
\* only after the primary engine failed (at import, construction or display),
\* once; Failed, with a message, is reached only when both failed; every
\* histogram render ends in Rendered or in Failed, and nothing is raised.
C3_RenderStateMachine ==
    /\ mpc # "raised"
    /\ renderTrace \in RenderPaths
    /\ InTrace("FallbackAttempt") => inp.primary # "ok"
    /\ InTrace("Failed") =>
           /\ inp.primary # "ok" /\ inp.secondary # "ok"
           /\ \E i \in 1..Len(messages) : messages[i] = MsgHistFailed
    /\ (Charted /\ inp.chart_type = "Histogramme") =>
           /\ renderTrace[Len(renderTrace)] \in {"Rendered", "Failed"}
           /\ inp.primary # "ok" => InTrace("FallbackAttempt")
           /\ InTrace("Rendered") <=> (inp.primary = "ok" \/ inp.secondary = "ok")
           /\ InTrace("Failed") <=> (inp.primary # "ok" /\ inp.secondary # "ok")
    /\ (mpc # "idle" /\ inp.chart_type # "Histogramme") => renderTrace = <<>>

\* C3 witness: both engines failed and the render ended in Failed.
C3_Witness ==
    /\ mpc = "end"
    /\ renderTrace = <<"Selecting", "PrimaryAttempt", "FallbackAttempt", "Failed">>
    /\ inp.primary = "display" /\ inp.secondary = "import"

\* C4: the fallback attempt bins as the primary attempt does: the same number
\* of bins, hist_bins, of equal width over [min, max], hence the same edges
\* (stated for a series of at least two distinct present values, for which
\* the interval [min, max] is not a point).
C4_SameBinning ==
    (/\ IsSet(primaryBins) /\ IsSet(fallbackBins)
     /\ \E i, j \in PresentAt : col_series[i] # col_series[j]) =>
        /\ fallbackBins.count = inp.hist_bins
        /\ primaryBins.count = fallbackBins.count
        /\ primaryBins.lo = fallbackBins.lo
        /\ primaryBins.hi = fallbackBins.hi

RECURSIVE SumDeviations(_, _, _)
SumDeviations(idx, num, den) ==
    IF idx = {} THEN 0
    ELSE LET i == CHOOSE j \in idx : TRUE
         IN (col_series[i].num * den - num) + SumDeviations(idx \ {i}, num, den)

Below(m) == {i \in PresentAt : col_series[i].num * m.den < m.num}
Above(m) == {i \in PresentAt : col_series[i].num * m.den > m.num}

\* C7: the reported mean and median are those of the present values alone: the
\* deviations of the present values from the mean sum to zero; the median is a
\* present value with less than half of them on each side, or the midpoint of
\* the two middle ones with exactly half on each side; [1,2,3,missing,5] gives
\* 2.75 and 2.5; and the report is NaN, the no-data value, never a number, if
\* and only if every entry is missing.
C7_SummaryOverPresent ==
    IsSet(summary) =>
        LET m == summary.mean_v
            d == summary.median_v
            n == Cardinality(PresentAt)
        IN /\ (m = NaN) <=> (PresentAt = {})
           /\ (d = NaN) <=> (PresentAt = {})
           /\ PresentAt # {} =>
                  /\ m.den > 0 /\ d.den > 0
                  /\ SumDeviations(PresentAt, m.num, m.den) = 0
                  /\ \/ /\ \E i \in PresentAt : col_series[i].num * d.den = d.num
                        /\ 2 * Cardinality(Below(d)) < n
                        /\ 2 * Cardinality(Above(d)) < n
                     \/ /\ 2 * Cardinality(Below(d)) = n
                        /\ 2 * Cardinality(Above(d)) = n
                        /\ \E a \in Below(d), b \in Above(d) :
                               /\ \A i \in Below(d) : col_series[i].num <= col_series[a].num
                               /\ \A i \in Above(d) : col_series[i].num >= col_series[b].num
                               /\ 2 * d.num = (col_series[a].num + col_series[b].num) * d.den
           /\ col_series = ExampleSeries =>
                  /\ 4 * m.num = 11 * m.den
                  /\ 2 * d.num = 5 * d.den

\* C7 witness: the summary of a series whose entries are all missing was
\* reported, as NaN.
C7_Witness ==
    /\ IsSet(summary)
    /\ Len(col_series) >= 2
    /\ PresentAt = {}
    /\ summary.mean_v = NaN /\ summary.median_v = NaN

\* C8: a bar chart plots at most 100 points, and they are the first
\* min(100, n) present values of the series in their order: the k-th plotted
\* point is the k-th present entry of the series.
C8_BarPlotsFirstHundred ==
    (Charted /\ inp.chart_type = "Bar") =>
        LET pts == plotted.points
        IN /\ Len(pts) <= 100
           /\ Len(pts) = Min(100, Cardinality(PresentAt))
           /\ \A k \in 1..Len(pts) :
                  /\ pts[k].i + 1 \in PresentAt
                  /\ pts[k].v = col_series[pts[k].i + 1]
                  /\ Cardinality({j \in PresentAt : j <= pts[k].i + 1}) = k

\* C8 witness: a bar chart of a series with missing entries and more than 100
\* present values plotted 100 points.
C8_Witness ==
    /\ Charted /\ inp.chart_type = "Bar"
    /\ Cardinality(PresentAt) > 100
    /\ Cardinality(PresentAt) < Len(col_series)
    /\ Len(plotted.points) = 100

\* C9: when the preview is truncated to the first max_rows rows, the download
\* is the CSV of the rows displayed.
C9_DownloadIsDisplayed ==
    (IsSet(download) /\ inp.show_head /\ inp.max_rows < NRows(inp.df)) =>
        download.data = ToCsv(displayed.frame)

====
